---- MODULE Spec2Model ----
(***************************************************************************)
(* Model of gemini_review.py: a run of main() as a state machine, and the  *)
(* runs of the tool one after the other on the same ./review directory.    *)
(*                                                                         *)
(* Text is a sequence of one-character strings, so that strip(), slicing,  *)
(* join and the f-strings are computed as Python computes them.  Files     *)
(* hold bytes: write_text(..., encoding="utf-8") stores Utf8Encode(text).  *)
(* None is the value None, which no text equals.                           *)
(***************************************************************************)
EXTENDS Integers, Sequences, FiniteSets, TLC

VARIABLES
    pc,             \* position of the run in main()
    config,         \* dict returned by load_config
    project_dir,    \* Path(project_path)
    current_branch, \* main: current_branch
    base_commit,    \* main: base_commit
    head_commit,    \* main: head_commit
    diff_text,      \* main: diff_text
    i,              \* call_gemini_api: retry counter
    review_result,  \* main: review_result
    timestamp,      \* main: timestamp
    exit_code,      \* exit status of the process: {} while it runs
    config_file,    \* review_config.json: missing, not JSON, or a JSON object
    has_git,        \* whether project_dir / ".git" exists
    api_key,        \* whether GEMINI_API_KEY is set in the environment
    refs,           \* the repository: branch name -> commit hash
    run,            \* how many runs of the tool came before this one
    stdout,         \* run_cmd: result.stdout of the last git command
    git_cmds,       \* the git commands run, with their exit status, in order
    now,            \* wall clock, in seconds of the day
    fs,             \* ./review: directory name -> its three files
    api_prompt,     \* contents of the requests sent to the API, in order
    outcomes,       \* outcome of each API attempt, in order
    sleeps,         \* durations passed to time.sleep, in order
    log             \* externally visible operations of the run, in order

\* what the run finds and does not change
env == <<config_file, has_git, api_key, refs, run>>

vars == <<pc, config, project_dir, current_branch, base_commit, head_commit,
          diff_text, i, review_result, timestamp, exit_code, env, stdout,
          git_cmds, now, fs, api_prompt, outcomes, sleeps, log>>

----------------------------------------------------------------------------
(* Bounds of the model *)

MaxDiffLen == 2
MaxClock == 1
MaxLaterRuns == 1

----------------------------------------------------------------------------
(* Text *)

Whitespace == {" ", "\n", "\t"}

RECURSIVE LStrip(_)
LStrip(s) ==
    IF s # <<>> /\ Head(s) \in Whitespace THEN LStrip(Tail(s)) ELSE s

RECURSIVE RStrip(_)
RStrip(s) ==
    IF s # <<>> /\ s[Len(s)] \in Whitespace
    THEN RStrip(SubSeq(s, 1, Len(s) - 1))
    ELSE s

\* str.strip()
Strip(s) == RStrip(LStrip(s))

\* s[k:]
SliceFrom(s, k) == IF Len(s) <= k THEN <<>> ELSE SubSeq(s, k + 1, Len(s))

\* "".join(lines)
RECURSIVE Join_NoSeparator(_)
Join_NoSeparator(lines) ==
    IF lines = <<>> THEN <<>>
    ELSE lines[1] \o Join_NoSeparator(Tail(lines))

\* "\n".join(lines)
RECURSIVE Join(_)
Join(lines) ==
    IF lines = <<>> THEN <<>>
    ELSE IF Len(lines) = 1 THEN lines[1]
    ELSE lines[1] \o <<"\n">> \o Join(Tail(lines))

RECURSIVE SeqsUpTo(_, _)
SeqsUpTo(S, n) ==
    IF n = 0 THEN {<<>>}
    ELSE LET shorter == SeqsUpTo(S, n - 1)
         IN  shorter \cup {Append(s, c) : s \in shorter, c \in S}

----------------------------------------------------------------------------
(* Characters and UTF-8.  "U+0060" stands for the one character backquote *)
(* and "U+00E9" for the one character e-acute.                            *)

CodePoints ==
    { <<"\t", 9>>, <<"\n", 10>>, <<" ", 32>>, <<"*", 42>>,
      <<"+", 43>>, <<"-", 45>>, <<".", 46>>, <<"/", 47>>,
      <<"0", 48>>, <<"1", 49>>, <<"2", 50>>, <<"3", 51>>,
      <<"4", 52>>, <<"5", 53>>, <<"6", 54>>, <<"7", 55>>,
      <<"8", 56>>, <<"9", 57>>, <<":", 58>>, <<"_", 95>>,
      <<"U+0060", 96>>, <<"a", 97>>, <<"b", 98>>, <<"c", 99>>,
      <<"d", 100>>, <<"e", 101>>, <<"g", 103>>, <<"h", 104>>,
      <<"i", 105>>, <<"j", 106>>, <<"l", 108>>, <<"m", 109>>,
      <<"n", 110>>, <<"o", 111>>, <<"p", 112>>, <<"r", 114>>,
      <<"s", 115>>, <<"t", 116>>, <<"v", 118>>, <<"w", 119>>,
      <<"U+00E9", 233>> }

Ord(c) == (CHOOSE p \in CodePoints : p[1] = c)[2]

Chr(n) == (CHOOSE p \in CodePoints : p[2] = n)[1]

\* one character as its UTF-8 bytes (code points below U+0800)
Utf8Char(c) ==
    LET n == Ord(c)
    IN  IF n < 128 THEN <<n>> ELSE <<192 + (n \div 64), 128 + (n % 64)>>

\* str.encode("utf-8"), computed by halves
RECURSIVE Utf8Encode(_)
Utf8Encode(s) ==
    IF s = <<>> THEN <<>>
    ELSE IF Len(s) = 1 THEN Utf8Char(s[1])
    ELSE LET h == Len(s) \div 2
         IN  Utf8Encode(SubSeq(s, 1, h)) \o Utf8Encode(SubSeq(s, h + 1, Len(s)))

\* bytes.decode("utf-8") of well-formed bytes, computed by halves that are
\* cut between two characters
IsContinuation(byte) == byte >= 128 /\ byte < 192

RECURSIVE Utf8Decode(_)
Utf8Decode(b) ==
    IF b = <<>> THEN <<>>
    ELSE IF Len(b) = 1 THEN <<Chr(b[1])>>
    ELSE IF Len(b) = 2 /\ IsContinuation(b[2])
         THEN <<Chr((b[1] - 192) * 64 + (b[2] - 128))>>
    ELSE LET h0 == Len(b) \div 2
             h == IF IsContinuation(b[h0 + 1]) THEN h0 + 1 ELSE h0
         IN  Utf8Decode(SubSeq(b, 1, h)) \o Utf8Decode(SubSeq(b, h + 1, Len(b)))

----------------------------------------------------------------------------
(* Constants of the program *)

\* call_gemini_api: retry_time (Python indexes it from 0)
retry_time == <<3, 30, 120, 300, 600>>

\* retry_time[k]
RetryTimeAt(k) == retry_time[k + 1]

\* the literal parts of the f-strings of main
LitDate == <<"d", "a", "t", "e", ":", " ">>
LitProjectPath == <<"p", "r", "o", "j", "e", "c", "t", " ", "p", "a", "t", "h", ":", " ">>
LitBaseBranch == <<"b", "a", "s", "e", " ", "b", "r", "a", "n", "c", "h", ":", " ">>
LitBaseCommit == <<"b", "a", "s", "e", " ", "c", "o", "m", "m", "i", "t", ":", " ">>
LitTargetBranch == <<"r", "e", "v", "i", "e", "w", " ", "t", "a", "r", "g", "e", "t", " ", "b", "r", "a", "n", "c", "h", ":", " ">>
LitTargetCommit == <<"r", "e", "v", "i", "e", "w", " ", "t", "a", "r", "g", "e", "t", " ", "c", "o", "m", "m", "i", "t", ":", " ">>
LitModel == <<"m", "o", "d", "e", "l", ":", " ">>
LitSeparator == <<"-", "-", "-", "-", "\n">>
LitPrompt == <<"p", "r", "o", "m", "p", "t", ":", "\n">>
LitFence == <<"U+0060", "U+0060", "U+0060">>
LitDot == <<".">>
NL == <<"\n">>

\* the working directory of the run, as an absolute path
Cwd == <<"/", "w">>

\* the date of the run, %Y%m%d
Today == <<"2", "0", "2", "6", "0", "1", "0", "1">>

----------------------------------------------------------------------------
(* The inputs of a run *)

\* Python's None, as a value no text equals
None == <<"None">>

\* a "prompt" value of the JSON file: a string, or a list of strings
JsonStr(t) == [list |-> FALSE, val |-> t]
JsonList(l) == [list |-> TRUE, val |-> l]

ProjectPaths == {None, <<"r">>}
Branches == {<<"d">>, <<"m">>}
Commits == {<<"1">>, <<"2">>}
Models == {<<"g">>}
Prompts == {JsonStr(<<"p">>), JsonList(<< <<"a">>, <<"b">> >>)}

ConfigFiles ==
    [project_path : ProjectPaths, base_branch : Branches, model : Models,
     prompt : Prompts]

\* stdout of "git branch --contains": the branches that contain the checked
\* out commit, sorted, the current one marked with "* ", the others with "  "
RECURSIVE BranchLines(_, _, _)
BranchLines(names, cur, listed) ==
    IF names = <<>> THEN <<>>
    ELSE LET b == Head(names)
             rest == BranchLines(Tail(names), cur, listed)
         IN  IF b = cur THEN <<"*", " ">> \o b \o NL \o rest
             ELSE IF b \in listed THEN <<" ", " ">> \o b \o NL \o rest
             ELSE rest

SortedBranches == << <<"d">>, <<"m">> >>

BranchOutputs ==
    {BranchLines(SortedBranches, cur, listed) :
        cur \in Branches, listed \in SUBSET Branches}

\* stdout of "git diff"
DiffChars == {"\n", "+"}
DiffOutputs == SeqsUpTo(DiffChars, MaxDiffLen)

\* text of a successful API response
Responses == {<<>>, <<"o", "U+00E9">>}

\* an API attempt: a response, an APIError with a code, an APIError without
\* a code attribute, or an exception that is no APIError
ApiCodes == {400, 429, 503}
Ok(t) == [kind |-> "ok", code |-> 0, text |-> t]
ApiError(c) == [kind |-> "api_error", code |-> c, text |-> <<>>]
ApiErrorNoCode == [kind |-> "api_error_nocode", code |-> 0, text |-> <<>>]
OtherException == [kind |-> "exception", code |-> 0, text |-> <<>>]

ApiOutcomes ==
    {Ok(t) : t \in Responses} \cup {ApiError(c) : c \in ApiCodes}
        \cup {ApiErrorNoCode, OtherException}

\* a system call that creates or writes a file: it succeeds, it fails before
\* the file is opened, or it fails after the file was opened for writing
WriteOutcomes == {"ok", "open_failed", "write_failed"}

----------------------------------------------------------------------------
(* The pure parts of the program *)

\* run_cmd: result.stdout.strip()
run_cmd(out) == Strip(out)

\* load_config: the dict returned for a JSON object
load_config(file) ==
    IF file.prompt.list
    THEN [file EXCEPT !.prompt = Join(file.prompt.val)]
    ELSE [file EXCEPT !.prompt = file.prompt.val]

\* main: the locals read from config
project_path == IF config.project_path = None THEN LitDot ELSE config.project_path
base_branch == config.base_branch
model == config.model
prompt == config.prompt

\* git rev-parse: the names the repository resolves
Resolves(name) == name \in DOMAIN refs

\* the comparison of the branch names instead of the commits
SameCommit_BranchNames(b, h) == base_branch = current_branch

\* main: base_commit == head_commit
SameCommit(b, h) == b = h

\* the test without its "not"
DiffIsEmpty_Inverted(d) == Strip(d) # <<>>

\* main: not diff_text.strip()
DiffIsEmpty(d) == Strip(d) = <<>>

\* main: the contents sent to the API
FullPrompt(p, d) == p \o NL \o LitFence \o d \o LitFence

\* the handler without "if e.code == 429: break"
HandlerBreaks_No429(e, n) ==
    \/ e.kind = "api_error_nocode"
    \/ n > Len(retry_time) - 1

\* the handler whose test of i applies to code 503 only
HandlerBreaks_BudgetOn503(e, n) ==
    \/ e.kind = "api_error_nocode"
    \/ (n > Len(retry_time) - 1 /\ e.code = 503)
    \/ e.code = 429

\* call_gemini_api: the handler breaks out of the loop; e is the error and
\* n the value of i after i += 1
HandlerBreaks(e, n) ==
    \/ e.kind = "api_error_nocode"
    \/ n > Len(retry_time) - 1
    \/ e.code = 429

\* call_gemini_api: the sleeps of a handler that does not break
HandlerSleeps(e, n) ==
    IF e.code = 503 THEN <<RetryTimeAt(n)>> ELSE <<>>

\* the test "is not None"
ResultIsNone_Inverted(r) == r # None

\* the test "not review_result"
ResultIsNone_Falsy(r) == r = None \/ r = <<>>

\* main: review_result is None
ResultIsNone(r) == r = None

\* strftime("%Y%m%d_%H%M%S") of second t of the day
Digit(n) == <<"0", "1", "2", "3", "4", "5", "6", "7", "8", "9">>[n + 1]
TwoDigits(n) == <<Digit(n \div 10), Digit(n % 10)>>
Strftime(t) ==
    Today \o <<"_">> \o TwoDigits(t \div 3600) \o TwoDigits((t \div 60) % 60)
        \o TwoDigits(t % 60)

\* Path.resolve()
Resolve(p) ==
    IF p = LitDot THEN Cwd
    ELSE IF Head(p) = "/" THEN p
    ELSE Cwd \o <<"/">> \o p

\* meta_info with the two commits exchanged
MetaInfo_Swapped(ts, dir, bb, bc, cb, hc, m, p) ==
    LitDate \o ts \o NL
        \o LitProjectPath \o Resolve(dir) \o NL
        \o LitBaseBranch \o bb \o NL
        \o LitBaseCommit \o hc \o NL
        \o LitTargetBranch \o cb \o NL
        \o LitTargetCommit \o bc \o NL
        \o LitModel \o m \o NL
        \o LitSeparator
        \o LitPrompt
        \o p \o NL

\* main: meta_info
MetaInfo(ts, dir, bb, bc, cb, hc, m, p) ==
    LitDate \o ts \o NL
        \o LitProjectPath \o Resolve(dir) \o NL
        \o LitBaseBranch \o bb \o NL
        \o LitBaseCommit \o bc \o NL
        \o LitTargetBranch \o cb \o NL
        \o LitTargetCommit \o hc \o NL
        \o LitModel \o m \o NL
        \o LitSeparator
        \o LitPrompt
        \o p \o NL

\* Path.write_text(text, encoding="utf-8"): the bytes of the file
write_text(text) == Utf8Encode(text)

\* the files of ./review/<dir>
NoFiles == [n \in {} |-> <<>>]
DirExists(dir) == dir \in DOMAIN fs
FileExists(dir, name) == DirExists(dir) /\ name \in DOMAIN fs[dir]

\* Path.mkdir(parents=True, exist_ok=True)
Mkdir(dir) == IF DirExists(dir) THEN fs ELSE (dir :> NoFiles) @@ fs

\* the file system after a write of ./review/<dir>/<name>
WriteFile(dir, name, bytes, outcome) ==
    CASE outcome = "ok" -> [fs EXCEPT ![dir] = (name :> bytes) @@ @]
      [] outcome = "write_failed" -> [fs EXCEPT ![dir] = (name :> <<>>) @@ @]
      [] OTHER -> fs

----------------------------------------------------------------------------
(* The run *)

NoConfig ==
    [project_path |-> None, base_branch |-> None, model |-> None,
     prompt |-> None]

\* review_config.json: missing, not JSON, or a JSON object
ConfigFileStates ==
    {[found |-> f, json |-> NoConfig] : f \in {"missing", "invalid"}}
        \cup {[found |-> "ok", json |-> j] : j \in ConfigFiles}

Init ==
    /\ pc = "load_config"
    /\ config = NoConfig
    /\ project_dir = None
    /\ current_branch = None
    /\ base_commit = None
    /\ head_commit = None
    /\ diff_text = None
    /\ i = 0
    /\ review_result = None
    /\ timestamp = None
    /\ exit_code = {}
    /\ config_file \in ConfigFileStates
    /\ has_git \in BOOLEAN
    /\ api_key \in BOOLEAN
    /\ refs \in [Branches -> Commits]
    /\ run = 0
    /\ stdout = None
    /\ git_cmds = <<>>
    /\ now = 0
    /\ fs = [d \in {} |-> NoFiles]
    /\ api_prompt = <<>>
    /\ outcomes = <<>>
    /\ sleeps = <<>>
    /\ log = <<>>

\* the process ends with status code, after the operations in events
Exit(code, events) ==
    /\ pc' = "done"
    /\ exit_code' = {code}
    /\ log' = log \o events

\* an exception nothing catches: the traceback, and exit status 1
Crash(events) == Exit(1, events \o <<"traceback">>)

\* the run goes on at position next, after the operations in events
Goto(next, events) ==
    /\ pc' = next
    /\ exit_code' = exit_code
    /\ log' = log \o events

\* a handler that falls back to an empty config
ConfigNotFound_Defaults ==
    /\ config' = NoConfig
    /\ Goto("check_git", <<"open_config", "stderr_config">>)

\* load_config: except FileNotFoundError
ConfigNotFound ==
    /\ config' = config
    /\ Exit(1, <<"open_config", "stderr_config">>)

\* main: config = load_config() and the four config.get
LoadConfig ==
    /\ pc = "load_config"
    /\ CASE config_file.found = "missing" -> ConfigNotFound
         [] config_file.found = "invalid" ->
              /\ config' = config
              /\ Crash(<<"open_config">>)
         [] OTHER ->
              /\ config' = load_config(config_file.json)
              /\ Goto("check_git", <<"open_config">>)
    /\ UNCHANGED <<project_dir, current_branch, base_commit, head_commit,
                   diff_text, i, review_result, timestamp, env, stdout,
                   git_cmds, now, fs, api_prompt, outcomes, sleeps>>

\* the check of .git without its sys.exit(1)
CheckGit_NoExit ==
    /\ pc = "check_git"
    /\ project_dir' = project_path
    /\ IF ~has_git
       THEN Goto("get_current_branch", <<"exists_git", "stderr_git">>)
       ELSE Goto("get_current_branch", <<"exists_git">>)
    /\ UNCHANGED <<config, current_branch, base_commit, head_commit,
                   diff_text, i, review_result, timestamp, env, stdout,
                   git_cmds, now, fs, api_prompt, outcomes, sleeps>>

\* main: project_dir and the check of project_dir / ".git"
CheckGit ==
    /\ pc = "check_git"
    /\ project_dir' = project_path
    /\ IF ~has_git
       THEN Exit(1, <<"exists_git", "stderr_git">>)
       ELSE Goto("get_current_branch", <<"exists_git">>)
    /\ UNCHANGED <<config, current_branch, base_commit, head_commit,
                   diff_text, i, review_result, timestamp, env, stdout,
                   git_cmds, now, fs, api_prompt, outcomes, sleeps>>

\* what a git command returns: its exit status and its stdout
GitFails == [status |-> 128, stdout |-> <<>>]
GitPrints(text) == [status |-> 0, stdout |-> text]

\* git branch --contains
GitBranch == {GitFails} \cup {GitPrints(t) : t \in BranchOutputs}

\* git rev-parse name
GitRevParse(name) ==
    {GitFails} \cup
        (IF Resolves(name) THEN {GitPrints(refs[name] \o NL)} ELSE {})

\* git diff --minimal from..to
GitDiff(from, to) == {GitFails} \cup {GitPrints(t) : t \in DiffOutputs}

\* subprocess.run(cmd, check=False)
CalledProcessError_Unchecked(r) == FALSE

\* run_cmd: check=True raises CalledProcessError on a nonzero exit status
CalledProcessError(r) == r.status # 0

\* run_cmd: subprocess.run(cmd, check=True) that ended as r
RunGit(cmd, arg, r) ==
    /\ stdout' = r.stdout
    /\ git_cmds' = Append(git_cmds, [cmd |-> cmd, arg |-> arg, status |-> r.status])

\* main: current_branch = get_current_branch(project_dir)[2:]
GetCurrentBranch ==
    /\ pc = "get_current_branch"
    /\ \E r \in GitBranch :
         /\ RunGit("branch", <<>>, r)
         /\ IF CalledProcessError(r)
            THEN /\ current_branch' = current_branch
                 /\ Crash(<<"git_branch">>)
            ELSE /\ current_branch' = SliceFrom(run_cmd(r.stdout), 2)
                 /\ Goto("get_base_commit", <<"git_branch">>)
    /\ UNCHANGED <<config, project_dir, base_commit, head_commit, diff_text,
                   i, review_result, timestamp, env, now, fs, api_prompt,
                   outcomes, sleeps>>

\* main: base_commit = get_latest_commit(base_branch, project_dir)
GetBaseCommit ==
    /\ pc = "get_base_commit"
    /\ \E r \in GitRevParse(base_branch) :
         /\ RunGit("rev-parse", base_branch, r)
         /\ IF CalledProcessError(r)
            THEN /\ base_commit' = base_commit
                 /\ Crash(<<"git_rev_parse">>)
            ELSE /\ base_commit' = run_cmd(r.stdout)
                 /\ Goto("get_head_commit", <<"git_rev_parse">>)
    /\ UNCHANGED <<config, project_dir, current_branch, head_commit,
                   diff_text, i, review_result, timestamp, env, now, fs,
                   api_prompt, outcomes, sleeps>>

\* main: head_commit = get_latest_commit(current_branch, project_dir)
GetHeadCommit ==
    /\ pc = "get_head_commit"
    /\ \E r \in GitRevParse(current_branch) :
         /\ RunGit("rev-parse", current_branch, r)
         /\ IF CalledProcessError(r)
            THEN /\ head_commit' = head_commit
                 /\ Crash(<<"git_rev_parse">>)
            ELSE /\ head_commit' = run_cmd(r.stdout)
                 /\ Goto("compare", <<"git_rev_parse">>)
    /\ UNCHANGED <<config, project_dir, current_branch, base_commit,
                   diff_text, i, review_result, timestamp, env, now, fs,
                   api_prompt, outcomes, sleeps>>

\* the comparison preceded by a check of the credential
CompareCommits_KeyFirst ==
    /\ pc = "compare"
    /\ IF ~api_key
       THEN Exit(1, <<"getenv", "stderr_key">>)
       ELSE IF SameCommit(base_commit, head_commit)
            THEN Exit(0, <<"print_no_diff">>)
            ELSE Goto("get_diff", <<>>)
    /\ UNCHANGED <<config, project_dir, current_branch, base_commit,
                   head_commit, diff_text, i, review_result, timestamp, env,
                   stdout, git_cmds, now, fs, api_prompt, outcomes, sleeps>>

\* main: if base_commit == head_commit: return
CompareCommits ==
    /\ pc = "compare"
    /\ IF SameCommit(base_commit, head_commit)
       THEN Exit(0, <<"print_no_diff">>)
       ELSE Goto("get_diff", <<>>)
    /\ UNCHANGED <<config, project_dir, current_branch, base_commit,
                   head_commit, diff_text, i, review_result, timestamp, env,
                   stdout, git_cmds, now, fs, api_prompt, outcomes, sleeps>>

\* main: diff_text = get_diff(...) and if not diff_text.strip(): return
GetDiff ==
    /\ pc = "get_diff"
    /\ \E r \in GitDiff(base_commit, head_commit) :
         /\ RunGit("diff", base_commit \o <<".", ".">> \o head_commit, r)
         /\ IF CalledProcessError(r)
            THEN /\ diff_text' = diff_text
                 /\ Crash(<<"git_diff">>)
            ELSE /\ diff_text' = run_cmd(r.stdout)
                 /\ IF DiffIsEmpty(diff_text')
                    THEN Exit(0, <<"git_diff", "print_empty_diff">>)
                    ELSE Goto("getenv", <<"git_diff">>)
    /\ UNCHANGED <<config, project_dir, current_branch, base_commit,
                   head_commit, i, review_result, timestamp, env, now, fs,
                   api_prompt, outcomes, sleeps>>

\* the lookup of GEMINI_API_KEY without its sys.exit(1)
GetEnv_NoExit ==
    /\ pc = "getenv"
    /\ i' = 0
    /\ IF ~api_key
       THEN Goto("attempt", <<"getenv", "stderr_key">>)
       ELSE Goto("attempt", <<"getenv">>)
    /\ UNCHANGED <<config, project_dir, current_branch, base_commit,
                   head_commit, diff_text, review_result, timestamp, env,
                   stdout, git_cmds, now, fs, api_prompt, outcomes, sleeps>>

\* call_gemini_api: the lookup of GEMINI_API_KEY, retry_time and i = 0
GetEnv ==
    /\ pc = "getenv"
    /\ IF ~api_key
       THEN /\ i' = i
            /\ Exit(1, <<"getenv", "stderr_key">>)
       ELSE /\ i' = 0
            /\ Goto("attempt", <<"getenv">>)
    /\ UNCHANGED <<config, project_dir, current_branch, base_commit,
                   head_commit, diff_text, review_result, timestamp, env,
                   stdout, git_cmds, now, fs, api_prompt, outcomes, sleeps>>

\* call_gemini_api: one pass of the while loop, try_call_gemini_api and the
\* handler of APIError
Attempt ==
    /\ pc = "attempt"
    /\ \E e \in ApiOutcomes :
         /\ outcomes' = Append(outcomes, e)
         /\ api_prompt' = Append(api_prompt, FullPrompt(prompt, diff_text))
         /\ CASE e.kind = "ok" ->
                   /\ review_result' = e.text
                   /\ i' = i
                   /\ sleeps' = sleeps
                   /\ Goto("check_result", <<"api">>)
              [] e.kind = "exception" ->
                   /\ review_result' = review_result
                   /\ i' = i
                   /\ sleeps' = sleeps
                   /\ Crash(<<"api">>)
              [] OTHER ->
                   /\ i' = i + 1
                   /\ IF HandlerBreaks(e, i')
                      THEN /\ review_result' = None
                           /\ sleeps' = sleeps
                           /\ Goto("check_result", <<"api">>)
                      ELSE /\ review_result' = review_result
                           /\ sleeps' = sleeps \o HandlerSleeps(e, i')
                           /\ Goto("attempt",
                                   IF HandlerSleeps(e, i') = <<>>
                                   THEN <<"api">>
                                   ELSE <<"api", "sleep">>)
    /\ UNCHANGED <<config, project_dir, current_branch, base_commit,
                   head_commit, diff_text, timestamp, env, stdout, git_cmds,
                   now, fs>>

\* a failed review that ends the process with sys.exit(1)
CheckResult_ExitsNonzero ==
    /\ pc = "check_result"
    /\ IF ResultIsNone(review_result)
       THEN Exit(1, <<"print_failed">>)
       ELSE Goto("mkdir", <<>>)
    /\ UNCHANGED <<config, project_dir, current_branch, base_commit,
                   head_commit, diff_text, i, review_result, timestamp, env,
                   stdout, git_cmds, now, fs, api_prompt, outcomes, sleeps>>

\* main: if review_result is None: return
CheckResult ==
    /\ pc = "check_result"
    /\ IF ResultIsNone(review_result)
       THEN Exit(0, <<"print_failed">>)
       ELSE Goto("mkdir", <<>>)
    /\ UNCHANGED <<config, project_dir, current_branch, base_commit,
                   head_commit, diff_text, i, review_result, timestamp, env,
                   stdout, git_cmds, now, fs, api_prompt, outcomes, sleeps>>

\* main: timestamp, output_dir and output_dir.mkdir(parents=True,
\* exist_ok=True); the clock may have advanced since the run started
MakeOutputDir ==
    /\ pc = "mkdir"
    /\ \E t \in now .. MaxClock :
         /\ now' = t
         /\ timestamp' = Strftime(t)
         /\ \/ /\ fs' = fs
               /\ Crash(<<"mkdir">>)
            \/ /\ fs' = Mkdir(timestamp')
               /\ Goto("write_diff", <<"mkdir">>)
    /\ UNCHANGED <<config, project_dir, current_branch, base_commit,
                   head_commit, diff_text, i, review_result, env, stdout,
                   git_cmds, api_prompt, outcomes, sleeps>>

\* a write whose failure is caught and ignored
WriteStep_Swallow(name, text, event, next) ==
    \E outcome \in WriteOutcomes :
        /\ fs' = WriteFile(timestamp, name, write_text(text), outcome)
        /\ Goto(next, <<event>>)

\* a step of main that writes one file of output_dir
WriteStep(name, text, event, next) ==
    \E outcome \in WriteOutcomes :
        /\ fs' = WriteFile(timestamp, name, write_text(text), outcome)
        /\ IF outcome = "ok"
           THEN Goto(next, <<event>>)
           ELSE Crash(<<event>>)

\* the write of diff.txt followed at once by the write of review.md
WriteDiff_SkipsMeta ==
    /\ pc = "write_diff"
    /\ WriteStep("diff.txt", diff_text, "write_diff", "write_review")
    /\ UNCHANGED <<config, project_dir, current_branch, base_commit,
                   head_commit, diff_text, i, review_result, timestamp, env,
                   stdout, git_cmds, now, api_prompt, outcomes, sleeps>>

\* main: diff_path.write_text(diff_text, encoding="utf-8")
WriteDiff ==
    /\ pc = "write_diff"
    /\ WriteStep("diff.txt", diff_text, "write_diff", "write_meta")
    /\ UNCHANGED <<config, project_dir, current_branch, base_commit,
                   head_commit, diff_text, i, review_result, timestamp, env,
                   stdout, git_cmds, now, api_prompt, outcomes, sleeps>>

\* main: meta_info and meta_path.write_text(meta_info, encoding="utf-8")
WriteMeta ==
    /\ pc = "write_meta"
    /\ WriteStep("meta.txt",
                 MetaInfo(timestamp, project_dir, base_branch, base_commit,
                          current_branch, head_commit, model, prompt),
                 "write_meta", "write_review")
    /\ UNCHANGED <<config, project_dir, current_branch, base_commit,
                   head_commit, diff_text, i, review_result, timestamp, env,
                   stdout, git_cmds, now, api_prompt, outcomes, sleeps>>

\* main: review_path.write_text(review_result, encoding="utf-8")
WriteReview ==
    /\ pc = "write_review"
    /\ WriteStep("review.md", review_result, "write_review", "preview")
    /\ UNCHANGED <<config, project_dir, current_branch, base_commit,
                   head_commit, diff_text, i, review_result, timestamp, env,
                   stdout, git_cmds, now, api_prompt, outcomes, sleeps>>

\* main: print(review_result[:2000]) and the return of main
Preview ==
    /\ pc = "preview"
    /\ Exit(0, <<"preview">>)
    /\ UNCHANGED <<config, project_dir, current_branch, base_commit,
                   head_commit, diff_text, i, review_result, timestamp, env,
                   stdout, git_cmds, now, fs, api_prompt, outcomes, sleeps>>

\* a signal from outside stops the process wherever it is
Interrupt ==
    /\ pc \notin {"done", "killed"}
    /\ pc' = "killed"
    /\ exit_code' = {130}
    /\ log' = Append(log, "interrupt")
    /\ UNCHANGED <<config, project_dir, current_branch, base_commit,
                   head_commit, diff_text, i, review_result, timestamp, env,
                   stdout, git_cmds, now, fs, api_prompt, outcomes, sleeps>>

Next ==
    \/ LoadConfig
    \/ CheckGit
    \/ GetCurrentBranch
    \/ GetBaseCommit
    \/ GetHeadCommit
    \/ CompareCommits
    \/ GetDiff
    \/ GetEnv
    \/ Attempt
    \/ CheckResult
    \/ MakeOutputDir
    \/ WriteDiff
    \/ WriteMeta
    \/ WriteReview
    \/ Preview

Spec == Init /\ [][Next]_vars

\* the run, with the signals that may stop it
NextInterruptible == Next \/ Interrupt

SpecInterruptible == Init /\ [][NextInterruptible]_vars

\* python gemini_review.py started again once the process has ended: the
\* locals of main are fresh, ./review and the clock are as the earlier runs
\* left them, the repository may have new commits
NewRun ==
    /\ pc = "done"
    /\ run < MaxLaterRuns
    /\ run' = run + 1
    /\ pc' = "load_config"
    /\ config' = NoConfig
    /\ project_dir' = None
    /\ current_branch' = None
    /\ base_commit' = None
    /\ head_commit' = None
    /\ diff_text' = None
    /\ i' = 0
    /\ review_result' = None
    /\ timestamp' = None
    /\ exit_code' = {}
    /\ refs' \in [Branches -> Commits]
    /\ stdout' = None
    /\ git_cmds' = <<>>
    /\ api_prompt' = <<>>
    /\ outcomes' = <<>>
    /\ sleeps' = <<>>
    /\ log' = <<>>
    /\ UNCHANGED <<config_file, has_git, api_key, now, fs>>

\* a working setup: the config file is there, the path is a repository and
\* the credential is set
InitRuns ==
    /\ Init
    /\ config_file.found = "ok"
    /\ config_file.json.project_path = None
    /\ config_file.json.prompt.list
    /\ has_git
    /\ api_key

\* the runs of the tool on one machine, one after the other
NextRuns == Next \/ NewRun

SpecRuns == InitRuns /\ [][NextRuns]_vars

----------------------------------------------------------------------------
(* What a state tells of the run so far *)

Last(s) == s[Len(s)]

LogHas(event) == \E k \in 1 .. Len(log) : log[k] = event

LogCount(event) == Cardinality({k \in 1 .. Len(log) : log[k] = event})

\* the operations of the run after its last API attempt
AfterLastApi ==
    LET last == CHOOSE k \in 1 .. Len(log) :
                    log[k] = "api" /\ \A j \in (k + 1) .. Len(log) : log[j] # "api"
    IN  SubSeq(log, last + 1, Len(log))

AllFiles == {"diff.txt", "meta.txt", "review.md"}

\* some artifact directory exists under ./review
ArtifactExists == DOMAIN fs # {}

\* call_gemini_api has returned to main
CallReturned == outcomes # <<>> /\ (pc = "check_result" \/ LogHas("print_failed") \/ LogHas("mkdir"))

\* review.md of this run was written in full
ReviewWritten == pc = "preview" \/ LogHas("preview")

\* the text a file of this run's output directory holds
FileText(name) == Utf8Decode(fs[timestamp][name])

----------------------------------------------------------------------------
(* Review Requester: retries *)

\* C1: in call_gemini_api the k-th wait lasts the k-th entry of
\* [3, 30, 120, 300, 600]; when the API fails with 503 exactly 3 times and
\* then succeeds, the sleeps are 3, 30, 120 in that order and the result of
\* the final call is the one written to review.md.
C1_RetrySchedule ==
    /\ \A k \in 1 .. Len(sleeps) : sleeps[k] = retry_time[k]
    /\ ( /\ Len(outcomes) = 4
         /\ \A k \in 1 .. 3 : outcomes[k] = ApiError(503)
         /\ outcomes[4].kind = "ok" )
       => /\ sleeps = <<3, 30, 120>>
          /\ ReviewWritten => FileText("review.md") = outcomes[4].text

\* C2: when every attempt fails with 503, call_gemini_api makes exactly 6
\* attempts with 5 sleeps and then returns None; there is never a 7th attempt.
C2_SixAttempts ==
    /\ Len(outcomes) <= 6
    /\ ( /\ CallReturned
         /\ \A k \in 1 .. Len(outcomes) : outcomes[k] = ApiError(503) )
       => /\ Len(outcomes) = 6
          /\ Len(sleeps) = 5
          /\ review_result = None

\* C3: another attempt is made only after a failure with code 503: after an
\* APIError with another code than 429 and 503, or without a code attribute,
\* call_gemini_api returns None with no further attempt and no sleep.
C3_RetryOnly503 ==
    \A k \in 1 .. Len(outcomes) :
        LET e == outcomes[k]
        IN  /\ k < Len(outcomes) => e = ApiError(503)
            /\ ( \/ e.kind = "api_error_nocode"
                 \/ e.kind = "api_error" /\ e.code \notin {429, 503} )
               => /\ k = Len(outcomes)
                  /\ CallReturned
                  /\ review_result = None
                  /\ AfterLastApi \in {<<>>, <<"print_failed">>}

\* C4: after an attempt that fails with code 429, the first or a later one,
\* no further attempt and no further sleep follows, call_gemini_api returns
\* None and the run reports failure without creating an artifact directory;
\* with the 429 on the first attempt no sleep occurs at all.
C4_RateLimitStops ==
    \A k \in 1 .. Len(outcomes) :
        outcomes[k] = ApiError(429)
        => /\ k = Len(outcomes)
           /\ CallReturned
           /\ review_result = None
           /\ AfterLastApi \in {<<>>, <<"print_failed">>}
           /\ pc = "done" => Last(log) = "print_failed"
           /\ ~ArtifactExists
           /\ k = 1 => sleeps = <<>>

\* C4: a run ended after a 503, a sleep and then a 429
C4_Witness ==
    /\ pc = "done"
    /\ outcomes = <<ApiError(503), ApiError(429)>>
    /\ Len(sleeps) = 1
    /\ Last(log) = "print_failed"

----------------------------------------------------------------------------
(* Short circuits *)

WhitespaceOnly(t) == \A k \in 1 .. Len(t) : t[k] \in Whitespace

\* a git command of the given kind was run
GitRan(cmd) == \E k \in 1 .. Len(git_cmds) : git_cmds[k].cmd = cmd

\* C5: when the resolved base commit equals the resolved head commit, no
\* diff is computed, no API call is made, no artifact directory is created
\* and the run ends with exit status 0.
C5_SameCommitNoReview ==
    (head_commit # None /\ base_commit = head_commit)
    => /\ ~GitRan("diff")
       /\ ~LogHas("git_diff")
       /\ outcomes = <<>>
       /\ ~LogHas("api")
       /\ ~ArtifactExists
       /\ pc \in {"compare", "done"}
       /\ pc = "done" => exit_code = {0} /\ Last(log) = "print_no_diff"

\* C5: a run that ended on identical commits of two different branches
C5_Witness ==
    /\ pc = "done"
    /\ exit_code = {0}
    /\ head_commit # None
    /\ base_commit = head_commit
    /\ base_branch # current_branch

\* C6: when the commits differ but the diff text is empty or whitespace-only,
\* no API call is made, the credential is not looked up, no artifact
\* directory is created and the run ends with exit status 0.
C6_EmptyDiffNoReview ==
    (diff_text # None /\ (WhitespaceOnly(diff_text) \/ WhitespaceOnly(stdout)))
    => /\ base_commit # head_commit
       /\ outcomes = <<>>
       /\ ~LogHas("api")
       /\ ~LogHas("getenv")
       /\ ~ArtifactExists
       /\ pc = "done"
       /\ exit_code = {0}
       /\ Last(log) = "print_empty_diff"

\* C6: a run whose git diff printed only a newline has ended
C6_Witness ==
    /\ pc = "done"
    /\ GitRan("diff")
    /\ stdout = NL
    /\ diff_text = <<>>
    /\ exit_code = {0}

----------------------------------------------------------------------------
(* Result Persister *)

\* C7: an artifact directory exists only if the run obtained a non-empty
\* diff and an API attempt returned a result that is not None; whenever
\* call_gemini_api returns None the run ends without creating the directory.
C7_ArtifactOnlyAfterResult ==
    /\ ArtifactExists
       => /\ diff_text # None
          /\ ~WhitespaceOnly(diff_text)
          /\ outcomes # <<>>
          /\ Last(outcomes).kind = "ok"
          /\ review_result = Last(outcomes).text
    /\ ( /\ CallReturned
         /\ Last(outcomes).kind \in {"api_error", "api_error_nocode"} )
       => /\ ~ArtifactExists
          /\ ~LogHas("mkdir")
          /\ pc \in {"check_result", "done"}
          /\ pc = "done" => Last(log) = "print_failed"

\* C7: the directory exists after an attempt failed and the next succeeded
C7_Witness ==
    /\ ArtifactExists
    /\ Len(outcomes) = 2
    /\ outcomes[1] = ApiError(503)
    /\ outcomes[2].kind = "ok"

\* the run has stopped, by itself or by a signal
Stopped == pc \in {"done", "killed"}

\* every artifact directory holds its three files
NoPartialArtifact == \A d \in DOMAIN fs : DOMAIN fs[d] = AllFiles

\* the run stopped between mkdir and the end of the write of review.md
StoppedWhilePersisting ==
    /\ Stopped
    /\ LogHas("mkdir")
    /\ ~(LogHas("write_review") /\ ~LogHas("traceback"))

\* C8, as claimed: in every state a run can stop in, a failing write or an
\* interruption between the persistence steps included, the artifact
\* directory exists if and only if its three files exist.
C8_NoPartialArtifact == Stopped => NoPartialArtifact

\* C8, amended: in every state a run can stop in, except a stop between the
\* creation of the directory and the end of the write of review.md (a
\* failing mkdir or write, or an interruption), the artifact directory exists
\* if and only if its three files exist.
C8_NoPartialUnlessStoppedWhilePersisting ==
    (Stopped /\ ~StoppedWhilePersisting)
    => /\ NoPartialArtifact
       /\ ArtifactExists <=> LogHas("mkdir")

\* C8: a run was interrupted after its three files were written
C8_Witness ==
    /\ pc = "killed"
    /\ ArtifactExists
    /\ NoPartialArtifact
    /\ ~StoppedWhilePersisting

\* text.split("\n")
RECURSIVE Lines(_)
Lines(t) ==
    IF \A k \in 1 .. Len(t) : t[k] # "\n" THEN <<t>>
    ELSE LET k == CHOOSE n \in 1 .. Len(t) :
                      t[n] = "\n" /\ \A j \in 1 .. (n - 1) : t[j] # "\n"
         IN  <<SubSeq(t, 1, k - 1)>> \o Lines(SubSeq(t, k + 1, Len(t)))

\* the run has written its three files and returned
Persisted == pc = "done" /\ LogHas("preview")

\* C9: for every run that persists an artifact with diff text D as returned
\* by get_diff, prompt template P and API response R, diff.txt holds exactly
\* D, review.md holds exactly R, and meta.txt holds the base commit, the head
\* commit, the base branch name and the current branch name the run used for
\* its git operations, followed by the separator line and P.
C9_RoundTrip ==
    Persisted
    => LET meta == Lines(FileText("meta.txt"))
           D == diff_text
           P == config.prompt
           R == Last(outcomes).text
       IN  /\ FileText("diff.txt") = D
           /\ D = LStrip(RStrip(stdout))
           /\ FileText("review.md") = R
           /\ api_prompt[Len(api_prompt)] = P \o NL \o LitFence \o D \o LitFence
           /\ meta[3] = LitBaseBranch \o git_cmds[2].arg
           /\ meta[4] = LitBaseCommit \o base_commit
           /\ meta[5] = LitTargetBranch \o git_cmds[3].arg
           /\ meta[6] = LitTargetCommit \o head_commit
           /\ git_cmds[4].arg = base_commit \o <<".", ".">> \o head_commit
           /\ base_commit = refs[git_cmds[2].arg]
           /\ head_commit = refs[git_cmds[3].arg]
           /\ SubSeq(meta, 8, Len(meta))
                = << <<"-", "-", "-", "-">>, <<"p", "r", "o", "m", "p", "t", ":">> >>
                    \o Lines(P) \o << <<>> >>

\* C9: a run persisted a diff that git printed with a trailing newline, a
\* response with a character outside ASCII and a prompt given as a list
C9_Witness ==
    /\ Persisted
    /\ stdout = <<"+", "\n">>
    /\ review_result = <<"o", "U+00E9">>
    /\ config_file.json.prompt.list

----------------------------------------------------------------------------
(* Config Loader *)

\* C10: when the config file does not exist, the run exits with nonzero
\* status after printing a diagnostic to the error stream, and no git
\* operation, no check of .git, no API call and no file write has occurred.
C10_MissingConfigExits ==
    (config_file.found = "missing" /\ pc # "load_config")
    => /\ pc = "done"
       /\ exit_code # {}
       /\ 0 \notin exit_code
       /\ log = <<"open_config", "stderr_config">>
       /\ git_cmds = <<>>
       /\ outcomes = <<>>
       /\ ~ArtifactExists

\* C10: a run without config file has ended
C10_Witness ==
    /\ config_file.found = "missing"
    /\ pc = "done"
    /\ exit_code = {1}

----------------------------------------------------------------------------
(* Preconditions and exit status *)

\* the place of the first occurrence of event in the log, 0 if it has none
FirstIndex(event) ==
    IF LogHas(event)
    THEN CHOOSE k \in 1 .. Len(log) :
             log[k] = event /\ \A j \in 1 .. (k - 1) : log[j] # event
    ELSE 0

\* the process ended with a status other than 0
ExitedNonzero == pc = "done" /\ exit_code # {} /\ 0 \notin exit_code

\* C11: when GEMINI_API_KEY is absent, call_gemini_api ends the process with
\* a nonzero exit before any API attempt and no artifact directory is
\* created; the credential is looked up exactly once per call, before the
\* first attempt, and not again before a retry.
C11_MissingKeyExits ==
    /\ (LogHas("getenv") /\ ~api_key)
       => /\ ExitedNonzero
          /\ Last(log) = "stderr_key"
          /\ outcomes = <<>>
          /\ ~LogHas("api")
          /\ ~ArtifactExists
    /\ LogHas("api")
       => /\ LogCount("getenv") = 1
          /\ FirstIndex("getenv") < FirstIndex("api")

\* C11: a run without credential has ended at the lookup
C11_Witness ==
    /\ ~api_key
    /\ LogHas("getenv")
    /\ pc = "done"
    /\ exit_code = {1}

\* C12: the existence of .git under project_path is checked exactly once and
\* before any git operation; when it is absent the run exits with nonzero
\* status with no git operation, no API call and no file write.
C12_GitCheckedOnceFirst ==
    /\ LogCount("exists_git") <= 1
    /\ git_cmds # <<>>
       => /\ LogCount("exists_git") = 1
          /\ \A k \in 1 .. Len(log) :
                 log[k] \in {"git_branch", "git_rev_parse", "git_diff"}
                 => FirstIndex("exists_git") < k
    /\ (LogHas("exists_git") /\ ~has_git)
       => /\ ExitedNonzero
          /\ Last(log) = "stderr_git"
          /\ git_cmds = <<>>
          /\ outcomes = <<>>
          /\ ~ArtifactExists

\* C12: a run on a path without .git has ended at the check
C12_Witness ==
    /\ ~has_git
    /\ LogHas("exists_git")
    /\ pc = "done"
    /\ exit_code = {1}

\* C13: the exit status is 0 when the run ends on identical commits, on an
\* empty diff, on a failed review (retries exhausted, 429 or another error
\* that is not retried) or after persistence, and nonzero when it ends on a
\* missing config file, a missing credential, a missing .git or a failing
\* git command.
C13_ExitStatusByPath ==
    pc = "done"
    => /\ (head_commit # None /\ base_commit = head_commit) => exit_code = {0}
       /\ (diff_text # None /\ WhitespaceOnly(diff_text)) => exit_code = {0}
       /\ ( /\ outcomes # <<>>
            /\ Last(outcomes).kind \in {"api_error", "api_error_nocode"} )
          => exit_code = {0}
       /\ LogHas("preview") => exit_code = {0}
       /\ config_file.found = "missing" => ExitedNonzero
       /\ (LogHas("getenv") /\ ~api_key) => ExitedNonzero
       /\ (LogHas("exists_git") /\ ~has_git) => ExitedNonzero
       /\ (git_cmds # <<>> /\ Last(git_cmds).status # 0) => ExitedNonzero

\* C13: a run ended with status 0 after the API failed five times
C13_Witness ==
    /\ pc = "done"
    /\ exit_code = {0}
    /\ Len(outcomes) = 5
    /\ Last(outcomes) = ApiError(503)

----------------------------------------------------------------------------
(* Prompt normalisation *)

\* C15: load_config normalises the prompt: a list of strings becomes its
\* elements in list order with one newline between consecutive elements and
\* none before the first or after the last, a string is left unchanged; this
\* effective template is what is sent to the API and written to meta.txt.
C15_PromptNormalised ==
    (pc # "load_config" /\ config_file.found = "ok")
    => LET given == config_file.json.prompt
           P == config.prompt
       IN  /\ given.list
              => /\ Lines(P) = given.val
                 /\ P[1] # "\n" /\ P[Len(P)] # "\n"
           /\ ~given.list => P = given.val
           /\ \A k \in 1 .. Len(api_prompt) :
                  SubSeq(api_prompt[k], 1, Len(P) + 1) = P \o NL
           /\ Persisted
              => LET meta == Lines(FileText("meta.txt"))
                 IN  SubSeq(meta, 10, Len(meta)) = Lines(P) \o << <<>> >>

\* C15: a run persisted a review whose prompt was given as the list a, b
C15_Witness ==
    /\ Persisted
    /\ config_file.json.prompt.list
    /\ config_file.json.prompt.val = << <<"a">>, <<"b">> >>
    /\ config.prompt = <<"a", "\n", "b">>

----------------------------------------------------------------------------
(* Termination of the retry loop *)

\* C16: whatever the API answers (success, 429, 503, any other code, an error
\* without code), call_gemini_api returns with a result or with None: the
\* number of attempts is bounded by a constant for every sequence of error
\* codes, so that the loop cannot go on forever.
C16_AttemptsBounded ==
    /\ Len(outcomes) <= Len(retry_time)
    /\ pc = "attempt" => (i = Len(outcomes) /\ i < Len(retry_time))
    /\ CallReturned
       => \/ review_result = None
          \/ /\ Last(outcomes).kind = "ok"
             /\ review_result = Last(outcomes).text

\* C16: the call returned None after five errors of a code other than 429
\* and 503
C16_Witness ==
    /\ CallReturned
    /\ review_result = None
    /\ Len(outcomes) = Len(retry_time)
    /\ \A k \in 1 .. Len(outcomes) : outcomes[k] = ApiError(400)

----------------------------------------------------------------------------
(* Failing git commands *)

\* C17: when a git command (branch --contains, rev-parse of the base, rev-parse
\* of the head, diff) returns a nonzero status the run ends there: the command
\* is not run again, no later git command runs, no API call is made and no
\* artifact directory is created.
C17_GitFailureEndsRun ==
    \A k \in 1 .. Len(git_cmds) :
        git_cmds[k].status # 0
        => /\ k = Len(git_cmds)
           /\ ExitedNonzero
           /\ Last(log) = "traceback"
           /\ LogCount("git_branch") + LogCount("git_rev_parse")
                + LogCount("git_diff") = k
           /\ outcomes = <<>>
           /\ ~LogHas("getenv")
           /\ ~ArtifactExists

\* C17: the run ended at a failing git diff, its fourth git command
C17_Witness ==
    /\ Len(git_cmds) = 4
    /\ git_cmds[4].cmd = "diff"
    /\ git_cmds[4].status # 0
    /\ pc = "done"

----------------------------------------------------------------------------
(* The empty response *)

\* C18: an empty string returned by the API is not an absent result: the run
\* does not take the failure path and persists an artifact whose review.md is
\* empty; only the result None makes the run skip persistence.
C18_EmptyIsNotNone ==
    /\ (CallReturned /\ Last(outcomes).kind = "ok")
       => /\ ~LogHas("print_failed")
          /\ pc # "check_result" => (pc = "mkdir" \/ LogHas("mkdir"))
    /\ (Persisted /\ Last(outcomes) = Ok(<<>>))
       => fs[timestamp]["review.md"] = <<>>
    /\ LogHas("print_failed")
       => /\ review_result = None
          /\ Last(outcomes).kind # "ok"
          /\ ~ArtifactExists

\* C18: a run persisted the empty response
C18_Witness ==
    /\ Persisted
    /\ Last(outcomes) = Ok(<<>>)
    /\ review_result = <<>>
    /\ FileExists(timestamp, "review.md")

----------------------------------------------------------------------------
(* Order of the persistence steps *)

\* event a occurs in the log before the first event b
Precedes(a, b) == LogHas(a) /\ FirstIndex(a) < FirstIndex(b)

\* C19: the persistence steps happen in the order mkdir, diff.txt, meta.txt,
\* review.md: in every reachable state review.md exists only if meta.txt
\* exists, meta.txt only if diff.txt exists, diff.txt only if the directory
\* exists, and the preview is printed only after all three files exist.
C19_PersistenceOrder ==
    /\ \A d \in {timestamp} \cup DOMAIN fs :
           /\ FileExists(d, "review.md") => FileExists(d, "meta.txt")
           /\ FileExists(d, "meta.txt") => FileExists(d, "diff.txt")
           /\ FileExists(d, "diff.txt") => DirExists(d)
    /\ LogHas("write_diff") => Precedes("mkdir", "write_diff")
    /\ LogHas("write_meta") => Precedes("write_diff", "write_meta")
    /\ LogHas("write_review") => Precedes("write_meta", "write_review")
    /\ LogHas("preview")
       => /\ Precedes("write_review", "preview")
          /\ \A n \in AllFiles : FileExists(timestamp, n)

\* C19: meta.txt is written and review.md is not yet
C19_Witness ==
    /\ pc = "write_review"
    /\ FileExists(timestamp, "meta.txt")
    /\ ~FileExists(timestamp, "review.md")

----------------------------------------------------------------------------
(* The place of the credential lookup *)

\* C20: the credential is looked up only once the review is requested, after
\* all four git commands have succeeded and a diff that is not empty was
\* obtained; a run without credential that stops on identical commits or on an
\* empty diff ends with exit status 0.
C20_KeyLookedUpLast ==
    /\ LogHas("getenv")
       => /\ Len(git_cmds) = 4
          /\ \A k \in 1 .. 4 : git_cmds[k].status = 0
          /\ git_cmds[4].cmd = "diff"
          /\ diff_text # None /\ ~WhitespaceOnly(diff_text)
          /\ \A k \in 1 .. Len(log) :
                 log[k] \in {"exists_git", "git_branch", "git_rev_parse",
                             "git_diff"}
                 => k < FirstIndex("getenv")
    /\ ( /\ ~api_key
         /\ pc = "done"
         /\ \/ (head_commit # None /\ base_commit = head_commit)
            \/ (diff_text # None /\ WhitespaceOnly(diff_text)) )
       => /\ exit_code = {0}
          /\ ~LogHas("getenv")

\* C20: a run without credential ran its four git commands before it ended
\* at the lookup
C20_Witness ==
    /\ ~api_key
    /\ LogHas("stderr_key")
    /\ Len(git_cmds) = 4
    /\ pc = "done"

----------------------------------------------------------------------------
(* Artifacts and later runs *)

\* C14: once a run has produced an artifact directory with its three files,
\* no later step of the tool changes or deletes it: whatever runs follow, a
\* run in the same second included, the contents of the earlier diff.txt,
\* meta.txt and review.md stay as they are.
C14_ArtifactNeverChanged ==
    [][\A d \in DOMAIN fs :
           DOMAIN fs[d] = AllFiles
           => (d \in DOMAIN fs' /\ fs'[d] = fs[d])]_vars

====
